---- MODULE Spec2Model ----
(***************************************************************************)
(* RadioService (src/radio.py): the background radio loop, the operator    *)
(* commands that steer it and the genre vote.                              *)
(*                                                                         *)
(* Scheduling.  Everything runs on one asyncio event loop, so code between *)
(* two awaits is one atomic step.  The radio loop is one task (pc is the   *)
(* await it is suspended at; "created", "top", "pop" and "result" are      *)
(* positions the task passes through without suspending, so nothing else   *)
(* runs while it stands there).  Every start_genre_vote call is a task.    *)
(* Operator commands are telegram handlers; the Application of             *)
(* src/main.py:71 is built without concurrent_updates, so one handler runs *)
(* to completion before the next update is dispatched.                     *)
(*                                                                         *)
(* Time.  Sleeps and timeouts end whenever the environment lets them end.  *)
(* mode_end_time is "future" when set and becomes "past" when its hour has *)
(* elapsed.  A vote timer (300 s) armed while mode_end_time was set always *)
(* expires before that hour does.                                          *)
(***************************************************************************)
EXTENDS Integers, Sequences, FiniteSets

\* ------------------------------------------------------------------ bounds
\* Identifiers the provider can return, and voters.
NumTracks == 2
NumVoters == 2
\* start_genre_vote tasks that may sleep at one time.
MaxVoteTimers == 2
\* The playlist's low-water mark (5), the capacity of the played set (500) and the
\* size of a vote's sample (16), scaled down.  A low-water mark of 2 is the
\* smallest at which a refill meets a playlist that is not empty.
LOW_WATER == 2
PLAYED_MAX == 1
VOTE_SAMPLE_SIZE == 1

\* Concurrent callers of download_with_retry on one downloader.
NumCallers == 4
\* Settings.MAX_RETRIES (5), scaled down.
MAX_RETRIES == 3
\* start() calls in flight, and orphaned loop tasks, at one time.
MaxStarts == 2
\* The cache's time to live (CACHE_TTL_DAYS * 86400 s), in ticks of the model's clock.
CACHE_TTL == 1
\* The radio loop's error limit (error_count < 10), scaled down.
ERROR_LIMIT == 3

\* ------------------------------------------------------- program constants
RETRY_DELAY_S == 5
RATE_LIMIT_DELAY_S == 60
SEM_PERMITS == 3

None == "None"
\* None where the value, when there is one, is an object.
Null == [null |-> TRUE]
DEFAULT_GENRE == "rock"
RADIO_GENRES == {"rock", "jazz"}
MoodNames == {"calm"}
MoodInputs == MoodNames \cup {"bogus"}
TrackIds == 1..NumTracks
Voters == 1..NumVoters

RADIO_MOODS(mood) == IF mood = "calm" THEN {"jazz"} ELSE {"music"}

VARIABLES
  is_on,                \* self._is_on
  task,                 \* self._task: "none", "running" or "done"
  cancel_req,           \* task.cancel() was called and CancelledError is not yet delivered
  pc,                   \* where the _radio_loop task stands
  skip_event,           \* self._skip_event
  error_count,          \* self.error_count
  status_message_info,  \* self._status_message_info is not None
  playlist,             \* self._playlist: tracks, each with the query term it was found by
  played_ids,           \* self._played_ids
  artist_mode,          \* self.artist_mode
  winning_genre,        \* self.winning_genre
  current_mood,         \* self.current_mood
  mode_end_time,        \* self.mode_end_time: "none", "future" or "past"
  vote_in_progress,     \* self._vote_in_progress
  votes,                \* self._votes: the dict in insertion order, <<[g, s], ...>>
  current_vote_genres,  \* self._current_vote_genres
  vote_new,             \* start_genre_vote tasks created and not yet run
  vote_timers,          \* start_genre_vote tasks in their 300 s sleep
  vote_ret,             \* what register_vote returned to the handler that is answering
  query,                \* _radio_loop: the query of the search in flight
  result,               \* _radio_loop: what download_with_retry returned
  stopping,             \* stop() is suspended in `await self._task`
  fatal_notices,        \* history: "stopped due to errors" notices sent since start()
  dl_fail_streak,       \* history: failed downloads in a row since the last success/start()
  stale_timers,         \* history: pending vote timers whose vote is over already
  evicted,              \* history: what set.pop() removed before the download in progress
  dropped,              \* history: the identifier the pop just made threw away as played
  audio_sent,           \* history: what _send_audio did with the last result it was given
  last_mode_op,         \* history: the operation that last assigned the mode fields
  \* BaseDownloader.download_with_retry, one entry per caller
  dl_variant,           \* which download_with_retry runs: "downloaders" or "base"
  semaphore,            \* self.semaphore: the permits left
  dl_pc,                \* where each call stands
  dl_attempt,           \* `attempt` of the for loop
  dl_ret,               \* what the call returned
  dl_calls,             \* history: invocations of download by this call
  dl_last,              \* history: how the last invocation of download ended
  dl_slept,             \* history: seconds slept since the last invocation ended
  \* the result cache (CacheService of cache_service.py, CacheManager of cache.py)
  cache_class,          \* which class the cache is: "CacheService" or "CacheManager"
  initialized,          \* self._is_initialized / self.initialized
  rows,                 \* the table `cache`: cache id -> row, or NoRow
  files,                \* the artifact files that exist on disk
  cache_ret,            \* history: what the last get returned
  cache_op,             \* history: the last call of set or get, if nothing came after it
  \* start() calls that overlap
  starts_in_flight,     \* start() calls past the test of line 67, awaiting send and pin
  orphan_tasks          \* loop tasks alive that self._task no longer refers to

radioVars == <<is_on, task, cancel_req, pc, skip_event, error_count, status_message_info,
          playlist, played_ids, artist_mode, winning_genre, current_mood,
          mode_end_time, vote_in_progress, votes, current_vote_genres, vote_new,
          vote_timers, vote_ret, query, result, stopping, fatal_notices, dl_fail_streak,
          stale_timers, evicted, dropped, audio_sent, last_mode_op>>

retryVars == <<dl_variant, semaphore, dl_pc, dl_attempt, dl_ret, dl_calls, dl_last, dl_slept>>

cacheVars == <<cache_class, initialized, rows, files, cache_ret, cache_op>>

\* what the radio does not touch
startVars == <<starts_in_flight, orphan_tasks>>

nonRadioVars == <<retryVars, cacheVars, startVars>>

vars == <<radioVars, retryVars, cacheVars, startVars>>

loopVars == <<pc, query, result>>
modeVars == <<artist_mode, winning_genre, current_mood, mode_end_time, last_mode_op>>
voteVars == <<vote_in_progress, votes, current_vote_genres, vote_new, vote_timers>>
histVars == <<fatal_notices, dl_fail_streak, stale_timers, evicted, dropped, audio_sent>>

\* ----------------------------------------------------------------- helpers
Min(a, b) == IF a < b THEN a ELSE b

Perms(S) == {s \in [1..Cardinality(S) -> S] : \A i, j \in 1..Cardinality(S) : s[i] = s[j] => i = j}

\* positions of _radio_loop
AwaitInTry == {"search", "search_relaxed", "empty_sleep", "download", "send", "wait", "fail_sleep"}
AwaitOutsideTry == {"exc_sleep", "epilogue"}
Running == {"created", "top", "pop", "result"}

\* Another task or handler can run only while the loop task is suspended.  A task
\* just created (the loop by start(), a start_genre_vote by the loop) takes its
\* first step before any later event.
LoopSuspended == pc \notin Running
EnvCanRun == LoopSuspended /\ vote_new = 0
HandlerCanRun == EnvCanRun /\ ~stopping

InitRadio ==
  /\ is_on = FALSE
  /\ task = "none"
  /\ cancel_req = FALSE
  /\ pc = "none"
  /\ skip_event = FALSE
  /\ error_count = 0
  /\ status_message_info = FALSE
  /\ playlist = <<>>
  /\ played_ids = {}
  /\ artist_mode = None
  /\ winning_genre = DEFAULT_GENRE
  /\ current_mood = None
  /\ mode_end_time = "none"
  /\ vote_in_progress = FALSE
  /\ votes = <<>>
  /\ current_vote_genres = {}
  /\ vote_new = 0
  /\ vote_timers = 0
  /\ vote_ret = "none"
  /\ query = None
  /\ result = None
  /\ stopping = FALSE
  /\ fatal_notices = 0
  /\ dl_fail_streak = 0
  /\ stale_timers = 0
  /\ evicted = {}
  /\ dropped = {}
  /\ audio_sent = "none"
  /\ starts_in_flight = 0
  /\ orphan_tasks = 0
  /\ last_mode_op = "init"

Callers == 1..NumCallers

InitRetry ==
  /\ semaphore = SEM_PERMITS
  /\ dl_pc = [c \in Callers |-> "idle"]
  /\ dl_attempt = [c \in Callers |-> 0]
  /\ dl_ret = [c \in Callers |-> Null]
  /\ dl_calls = [c \in Callers |-> 0]
  /\ dl_last = [c \in Callers |-> None]
  /\ dl_slept = [c \in Callers |-> 0]

\* ------------------------------------------------------ cache: keys, rows

\* Queries are sequences of characters: two spellings of one query.
Queries == {<<"a">>, <<" ", "A", " ">>}

\* Source.value of the members of Source.
Sources == {"YouTube", "Internet Archive"}

\* str.lower(), character by character.
lower_char(ch) == IF ch = "A" THEN "a" ELSE IF ch = "B" THEN "b" ELSE ch

lower(q) == [i \in 1..Len(q) |-> lower_char(q[i])]

\* str.strip(): the blanks at both ends go.
RECURSIVE lstrip(_)
lstrip(q) == IF q # <<>> /\ Head(q) = " " THEN lstrip(Tail(q)) ELSE q

RECURSIVE rstrip(_)
rstrip(q) == IF q # <<>> /\ q[Len(q)] = " " THEN rstrip(SubSeq(q, 1, Len(q) - 1)) ELSE q

strip(q) == rstrip(lstrip(q))

lower_source(s) == IF s = "YouTube" THEN "youtube" ELSE "internet archive"

\* _get_cache_id: md5 of "<source.value.lower()>:<query.lower().strip()>"; the
\* digest stands for the text it is taken of.
get_cache_id(q, s) == <<lower_source(s), strip(lower(q))>>

CacheIds == {get_cache_id(q, s) : q \in Queries, s \in Sources}

NoRow == [payload |-> Null, age |-> 0]

\* A result_json that json.loads or TrackInfo(**...) cannot take.
Corrupt == [corrupt |-> TRUE]

\* TrackInfo values and the DownloadResult values handed to set.
Track1 == [title |-> "t1", artist |-> "a1", duration |-> 1, source |-> "YouTube",
           identifier |-> "id1"]
Track2 == [title |-> "t2", artist |-> "a2", duration |-> 2, source |-> "YouTube",
           identifier |-> None]

FilePaths == {"f1", "f2"}

ResultOk1 == [success |-> TRUE, file_path |-> "f1", track_info |-> Track1, error |-> None]
ResultOk2 == [success |-> TRUE, file_path |-> "f2", track_info |-> Track2, error |-> None]
ResultFailed == [success |-> FALSE, file_path |-> None, track_info |-> Null, error |-> "e"]

Results == {ResultOk1, ResultOk2, ResultFailed,
            [success |-> TRUE, file_path |-> "f1", track_info |-> Null, error |-> None]}

\* No call of set or get is the last thing that happened.
NoOp == [op |-> "none", k |-> <<>>, r |-> Null, done |-> FALSE]

InitCache ==
  /\ cache_op = NoOp
  /\ initialized = FALSE
  /\ rows = [k \in CacheIds |-> NoRow]
  /\ files = {}
  /\ cache_ret = [unset |-> TRUE]

Init ==
  /\ InitRadio
  /\ dl_variant = "downloaders"
  /\ InitRetry
  /\ cache_class = "CacheService"
  /\ InitCache

\* ------------------------------------------------------- operator commands

\* skip(): the event is set only while the radio is on.
skip_effect == IF is_on THEN TRUE ELSE skip_event

skip ==
  /\ HandlerCanRun
  /\ skip_event' = skip_effect
  /\ UNCHANGED <<is_on, task, cancel_req, error_count, status_message_info, playlist,
                 played_ids, loopVars, modeVars, voteVars, stopping, histVars>>
  /\ vote_ret = "none" /\ UNCHANGED vote_ret
  /\ UNCHANGED nonRadioVars

\* start(): returns at once while a loop task is alive; a TelegramError while the
\* status message is sent or pinned returns before anything is assigned.
start_mode_end_time ==
  IF current_mood # None \/ winning_genre # DEFAULT_GENRE \/ artist_mode # None
  THEN "future" ELSE "none"

\* Lines 83-97: what start() does once the status message is sent and pinned.
start_effect ==
  /\ status_message_info' = TRUE
  /\ is_on' = TRUE
  /\ skip_event' = FALSE
  /\ error_count' = 0
  /\ playlist' = <<>>
  /\ played_ids' = {}
  /\ evicted' = {}
  /\ audio_sent' = "none"
  /\ UNCHANGED dropped
  /\ mode_end_time' = start_mode_end_time
  /\ task' = "running"
  /\ cancel_req' = FALSE
  /\ pc' = "created"
  /\ fatal_notices' = 0
  /\ dl_fail_streak' = 0
  /\ UNCHANGED <<artist_mode, winning_genre, current_mood, last_mode_op, voteVars,
                 query, result, stopping, stale_timers>>
  /\ vote_ret = "none" /\ UNCHANGED vote_ret

\* start() with no other start() in flight: the test of line 67 and the rest.
start ==
  /\ HandlerCanRun
  /\ starts_in_flight = 0
  /\ task # "running"
  /\ start_mode_end_time = "none" => vote_timers < MaxVoteTimers
  /\ start_effect
  /\ UNCHANGED nonRadioVars

\* stop(), up to `await self._task`.
stop_begin ==
  /\ HandlerCanRun
  /\ is_on' = FALSE
  /\ cancel_req' = (task = "running")
  /\ stopping' = TRUE
  /\ UNCHANGED <<task, skip_event, error_count, status_message_info, playlist,
                 played_ids, loopVars, modeVars, voteVars, histVars>>
  /\ vote_ret = "none" /\ UNCHANGED vote_ret
  /\ UNCHANGED nonRadioVars

\* stop() that does not wait for the task.
stop_await_done_not_awaited == TRUE

\* `await self._task` returns once the task is done (or there is no task).
stop_await_done == task # "running"

\* stop(), after the await.
stop_end ==
  /\ stopping
  /\ LoopSuspended
  /\ stop_await_done
  /\ task' = "none"
  /\ status_message_info' = FALSE
  /\ stopping' = FALSE
  /\ pc' = IF pc = "done" THEN "none" ELSE pc
  /\ UNCHANGED <<is_on, cancel_req, skip_event, error_count, playlist, played_ids,
                 query, result, modeVars, voteVars, histVars>>
  /\ vote_ret = "none" /\ UNCHANGED vote_ret
  /\ UNCHANGED nonRadioVars

\* ------------------------------------------------------------------- modes

\* set_admin_genre(genre): the assignments of lines 130-138.  The messages that
\* follow are awaited without a try: when send_message raises, skip() is not reached.
set_admin_genre(genre, sent) ==
  /\ HandlerCanRun
  /\ winning_genre' = genre
  /\ artist_mode' = None
  /\ current_mood' = None
  /\ mode_end_time' = "future"
  /\ playlist' = <<>>
  /\ vote_in_progress' = FALSE
  /\ skip_event' = IF sent THEN skip_effect ELSE skip_event
  /\ last_mode_op' = "set_admin_genre"
  /\ stale_timers' = IF vote_in_progress THEN vote_timers ELSE stale_timers
  /\ UNCHANGED <<is_on, task, cancel_req, error_count, status_message_info, played_ids,
                 loopVars, votes, current_vote_genres, vote_new, vote_timers, stopping,
                 fatal_notices, dl_fail_streak, evicted, dropped, audio_sent>>
  /\ vote_ret = "none" /\ UNCHANGED vote_ret
  /\ UNCHANGED nonRadioVars

\* set_artist_mode(artist): _update_status_message absorbs TelegramError, so skip()
\* is always reached.  A running vote is left running.
set_artist_mode(artist) ==
  /\ HandlerCanRun
  /\ artist_mode' = artist
  /\ winning_genre' = None
  /\ current_mood' = None
  /\ mode_end_time' = "future"
  /\ playlist' = <<>>
  /\ skip_event' = skip_effect
  /\ last_mode_op' = "set_artist_mode"
  /\ UNCHANGED <<is_on, task, cancel_req, error_count, status_message_info, played_ids,
                 loopVars, voteVars, stopping, histVars>>
  /\ vote_ret = "none" /\ UNCHANGED vote_ret
  /\ UNCHANGED nonRadioVars

\* set_mood(mood): a mood that is no key of RADIO_MOODS changes nothing.
set_mood(mood, sent) ==
  /\ HandlerCanRun
  /\ IF mood \notin MoodNames
     THEN UNCHANGED <<current_mood, artist_mode, winning_genre, mode_end_time, playlist,
                      skip_event, last_mode_op>>
     ELSE /\ current_mood' = mood
          /\ artist_mode' = None
          /\ winning_genre' = None
          /\ mode_end_time' = "future"
          /\ playlist' = <<>>
          /\ skip_event' = IF sent THEN skip_effect ELSE skip_event
          /\ last_mode_op' = "set_mood"
  /\ UNCHANGED <<is_on, task, cancel_req, error_count, status_message_info, played_ids,
                 loopVars, voteVars, stopping, histVars>>
  /\ vote_ret = "none" /\ UNCHANGED vote_ret
  /\ UNCHANGED nonRadioVars

\* -------------------------------------------------------------------- vote

\* random.sample(all_genres, min(len(all_genres), 16)), sorted.
Samples == {S \in SUBSET RADIO_GENRES :
              Cardinality(S) = Min(Cardinality(RADIO_GENRES), VOTE_SAMPLE_SIZE)}

\* start_genre_vote, run as a task of its own: lines 200-226 and the start of the
\* 300 s sleep.  `armed` is false when the status update raises and the vote is
\* rolled back.
start_genre_vote(sample, armed) ==
  /\ LoopSuspended
  /\ vote_new > 0
  /\ vote_new' = vote_new - 1
  /\ IF vote_in_progress
     THEN UNCHANGED <<vote_in_progress, votes, artist_mode, current_mood,
                      current_vote_genres, vote_timers, last_mode_op>>
     ELSE /\ vote_in_progress' = armed
          /\ votes' = <<>>
          /\ artist_mode' = None
          /\ current_mood' = None
          /\ current_vote_genres' = sample
          /\ vote_timers' = IF armed THEN vote_timers + 1 ELSE vote_timers
          /\ last_mode_op' = "start_genre_vote"
  /\ UNCHANGED <<is_on, task, cancel_req, skip_event, error_count, status_message_info,
                 playlist, played_ids, loopVars, winning_genre, mode_end_time, stopping,
                 histVars>>
  /\ vote_ret = "none" /\ UNCHANGED vote_ret
  /\ UNCHANGED nonRadioVars

\* The dict after `for g in votes: votes[g].discard(user_id)`.
Discarded(d, user_id) == [i \in 1..Len(d) |-> [g |-> d[i].g, s |-> d[i].s \ {user_id}]]

HasKey(d, genre) == \E i \in 1..Len(d) : d[i].g = genre

\* The dict after `votes[genre].add(user_id)`, a new key going last.
Added(d, genre, user_id) ==
  IF HasKey(d, genre)
  THEN [i \in 1..Len(d) |-> IF d[i].g = genre
                            THEN [g |-> genre, s |-> d[i].s \cup {user_id}]
                            ELSE d[i]]
  ELSE Append(d, [g |-> genre, s |-> {user_id}])

\* register_vote that forgets to retract the earlier ballot.
registered_without_retract(d, genre, user_id) == Added(d, genre, user_id)

\* register_vote's new tally.
registered(d, genre, user_id) == Added(Discarded(d, user_id), genre, user_id)

\* A register_vote that takes every ballot.
vote_accepted_always == TRUE

\* The test of lines 234-235: a ballot is taken while a vote is in progress.
vote_accepted == vote_in_progress

\* VoteCallbackHandler.handle up to its answer: register_vote(genre, user_id)
\* returns False, changing nothing, when no vote runs.
register_vote(genre, user_id) ==
  /\ HandlerCanRun
  /\ vote_ret = "none"
  /\ votes' = IF vote_accepted THEN registered(votes, genre, user_id) ELSE votes
  /\ vote_ret' = IF vote_accepted THEN "True" ELSE "False"
  /\ UNCHANGED <<is_on, task, cancel_req, skip_event, error_count, status_message_info,
                 playlist, played_ids, loopVars, modeVars, vote_in_progress,
                 current_vote_genres, vote_new, vote_timers, stopping, histVars>>
  /\ UNCHANGED nonRadioVars

\* VoteCallbackHandler.handle answers the callback query (handlers.py:264-266)
\* and is over.  The answer changes nothing of the radio; it is taken before
\* anything else moves.
vote_answered ==
  /\ vote_ret # "none"
  /\ vote_ret' = "none"
  /\ UNCHANGED <<is_on, task, cancel_req, skip_event, error_count, status_message_info,
                 playlist, played_ids, loopVars, modeVars, voteVars, stopping, histVars>>
  /\ UNCHANGED nonRadioVars

\* max(self._votes, key=lambda g: len(self._votes[g])): the first key, in the
\* dict's order, whose set is of maximum size.
MaxKey(d) ==
  LET best == CHOOSE i \in 1..Len(d) :
                /\ \A j \in 1..Len(d) : Cardinality(d[j].s) <= Cardinality(d[i].s)
                /\ \A j \in 1..(i - 1) : Cardinality(d[j].s) < Cardinality(d[i].s)
  IN d[best].g

\* end_genre_vote that takes the first key of the tally.
vote_winner_first_key(d) == IF d # <<>> THEN d[1].g ELSE DEFAULT_GENRE

\* end_genre_vote that keeps the genre it had when nobody voted.
vote_winner_keeps_genre(d) == IF d # <<>> THEN MaxKey(d) ELSE winning_genre

\* end_genre_vote's winner (lines 271-275).
vote_winner(d) == IF d # <<>> THEN MaxKey(d) ELSE DEFAULT_GENRE

\* The timer of a start_genre_vote task expires (line 229) and, when a vote is in
\* progress, end_genre_vote runs.  All timers sleep 300 s, so the one that expires
\* is the oldest; the timer of the vote in progress is the youngest.
vote_timer_expires ==
  /\ EnvCanRun
  /\ vote_timers > 0
  /\ vote_timers' = vote_timers - 1
  /\ IF vote_in_progress
     THEN /\ vote_in_progress' = FALSE
          /\ current_mood' = None
          /\ winning_genre' = vote_winner(votes)
          /\ mode_end_time' = "future"
          /\ playlist' = <<>>
          /\ skip_event' = skip_effect
          /\ last_mode_op' = "end_genre_vote"
          /\ stale_timers' = vote_timers - 1
     ELSE /\ stale_timers' = stale_timers - 1
          /\ UNCHANGED <<vote_in_progress, current_mood, winning_genre, mode_end_time,
                         playlist, skip_event, last_mode_op>>
  /\ UNCHANGED <<is_on, task, cancel_req, error_count, status_message_info, played_ids,
                 loopVars, artist_mode, votes, current_vote_genres, vote_new, stopping,
                 fatal_notices, dl_fail_streak, evicted, dropped, audio_sent>>
  /\ vote_ret = "none" /\ UNCHANGED vote_ret
  /\ UNCHANGED nonRadioVars

\* The hour of mode_end_time elapses.  It cannot while a vote timer is pending:
\* every timer was armed no later than mode_end_time was last set.
mode_time_elapses ==
  /\ EnvCanRun
  /\ task = "running"
  /\ mode_end_time = "future"
  /\ vote_timers = 0
  /\ mode_end_time' = "past"
  /\ UNCHANGED <<is_on, task, cancel_req, skip_event, error_count, status_message_info,
                 playlist, played_ids, loopVars, artist_mode, winning_genre,
                 current_mood, last_mode_op, voteVars, stopping, histVars>>
  /\ vote_ret = "none" /\ UNCHANGED vote_ret
  /\ UNCHANGED nonRadioVars

\* -------------------------------------------------------------- radio loop

\* _get_next_query: the term the query is built on (the artist, or a genre; the
\* three phrasings of a genre query are not told apart).
next_query_terms ==
  IF artist_mode # None THEN {artist_mode}
  ELSE IF current_mood # None THEN RADIO_MOODS(current_mood)
  ELSE {IF winning_genre # None THEN winning_genre ELSE DEFAULT_GENRE}

\* Leaving the while loop: the closing status update (lines 453-459).  The
\* "stopped because of errors" text is sent when the budget is spent and there is a
\* status message to edit.
enter_epilogue ==
  /\ pc' = "epilogue"
  /\ fatal_notices' = IF error_count >= ERROR_LIMIT /\ status_message_info
                      THEN fatal_notices + 1 ELSE fatal_notices

\* The task's first step.
loop_start ==
  /\ pc = "created"
  /\ pc' = "top"
  /\ UNCHANGED <<is_on, task, cancel_req, skip_event, error_count, status_message_info,
                 playlist, played_ids, query, result, modeVars, voteVars, stopping,
                 histVars>>
  /\ vote_ret = "none" /\ UNCHANGED vote_ret
  /\ UNCHANGED nonRadioVars

\* The while test.
loop_continues == is_on /\ error_count < ERROR_LIMIT

\* A loop that starts a vote whenever the mode has expired.
vote_due_whatever_runs == mode_end_time \in {"none", "past"}

\* Line 388: no vote is in progress and the mode has no expiry or is past it.
vote_due == ~vote_in_progress /\ mode_end_time \in {"none", "past"}

\* Lines 385-394: the while test, the vote trigger, and the refill decision.
loop_top ==
  /\ pc = "top"
  /\ IF ~loop_continues
     THEN /\ enter_epilogue
          /\ UNCHANGED <<vote_new, mode_end_time, query>>
     ELSE /\ IF vote_due
             THEN vote_new' = vote_new + 1 /\ mode_end_time' = "future"
             ELSE UNCHANGED <<vote_new, mode_end_time>>
          /\ IF Len(playlist) < LOW_WATER
             THEN \E q \in next_query_terms : query' = q /\ pc' = "search"
             ELSE query' = query /\ pc' = "pop"
          /\ UNCHANGED fatal_notices
  /\ UNCHANGED <<is_on, task, cancel_req, skip_event, error_count, status_message_info,
                 playlist, played_ids, result, artist_mode, winning_genre, current_mood,
                 last_mode_op, vote_in_progress, votes, current_vote_genres, vote_timers,
                 stopping, dl_fail_streak, stale_timers, evicted>>
  /\ dropped' = {}
  /\ audio_sent' = "none"
  /\ vote_ret = "none" /\ UNCHANGED vote_ret
  /\ UNCHANGED nonRadioVars

\* What a search can return: any tracks of the provider, or none.
SearchResults == SUBSET TrackIds

\* Lines 350-353: the tracks not played yet, shuffled, go to the end of the playlist.
extended(pl, found, order) ==
  pl \o [i \in 1..Len(order) |-> [id |-> order[i], q |-> query]]

\* Lines 396-401 after _fetch_playlist: nothing to play means wait and retry.
after_fetch(pl) == IF pl = <<>> THEN "empty_sleep" ELSE "pop"

\* A refill that appends whatever the search found.
unique_tracks_unfiltered(found) == found

\* Line 351: of what a search found, the tracks not played recently.
unique_tracks(found) == found \ played_ids

\* Settings.RADIO_MIN_VIEWS (10000) or Settings.RADIO_MIN_LIKES (500) is set.
popularity_floors == TRUE

\* A refill that gives up after the strict search.
relaxed_search_due_never(found) == FALSE

\* Line 342: the search is made again without the popularity floors when the
\* strict one returned nothing and a floor is configured.
relaxed_search_due(found) == found = {} /\ popularity_floors

\* The strict search returns (lines 333-342); an empty result goes on to the
\* search without the popularity floors (RADIO_MIN_VIEWS, RADIO_MIN_LIKES are set).
search_returns(found) ==
  /\ pc = "search"
  /\ ~cancel_req
  /\ IF relaxed_search_due(found)
     THEN /\ pc' = "search_relaxed"
          /\ UNCHANGED <<playlist, query, error_count>>
     ELSE /\ IF found # {}
             THEN /\ \E order \in Perms(unique_tracks(found)) :
                       playlist' = extended(playlist, found, order)
                  /\ UNCHANGED error_count
             ELSE /\ error_count' = error_count + 1
                  /\ UNCHANGED playlist
          /\ pc' = after_fetch(playlist')
          /\ query' = None
  /\ UNCHANGED <<is_on, task, cancel_req, skip_event, status_message_info,
                 played_ids, result, modeVars, voteVars, stopping, histVars>>
  /\ vote_ret = "none" /\ UNCHANGED vote_ret
  /\ UNCHANGED nonRadioVars

\* The relaxed search returns (lines 344-357); nothing found costs one error.
search_relaxed_returns(found) ==
  /\ pc = "search_relaxed"
  /\ ~cancel_req
  /\ IF found # {}
     THEN /\ \E order \in Perms(unique_tracks(found)) :
               playlist' = extended(playlist, found, order)
          /\ UNCHANGED error_count
     ELSE /\ error_count' = error_count + 1
          /\ UNCHANGED playlist
  /\ pc' = after_fetch(playlist')
  /\ query' = None
  /\ UNCHANGED <<is_on, task, cancel_req, skip_event, status_message_info, played_ids,
                 result, modeVars, voteVars, stopping, histVars>>
  /\ vote_ret = "none" /\ UNCHANGED vote_ret
  /\ UNCHANGED nonRadioVars

\* An exception inside the try (lines 448-451): a search that raises, or
\* _send_audio failing to open the file.
loop_raises ==
  /\ pc \in {"search", "search_relaxed", "send"}
  /\ ~cancel_req
  /\ error_count' = error_count + 1
  /\ pc' = "exc_sleep"
  /\ query' = None
  /\ UNCHANGED <<is_on, task, cancel_req, skip_event, status_message_info, playlist,
                 played_ids, result, modeVars, voteVars, stopping, histVars>>
  /\ vote_ret = "none" /\ UNCHANGED vote_ret
  /\ UNCHANGED nonRadioVars

\* Marking that never evicts.
marked_played_unbounded(ids, id) == {ids \cup {id}}

\* Lines 405-407: the identifier joins the set; above the capacity set.pop()
\* removes an arbitrary member.
marked_played(ids, id) ==
  IF Cardinality(ids \cup {id}) > PLAYED_MAX
  THEN {(ids \cup {id}) \ {e} : e \in ids \cup {id}}
  ELSE {ids \cup {id}}

\* What set.pop() removed: one identifier, or nothing when it was not called.
popped(ids, id, left) == (ids \cup {id}) \ left

\* Lines 401-409: pop the head; a played identifier is dropped.
loop_pop ==
  /\ pc = "pop"
  /\ playlist' = Tail(playlist)
  /\ IF Head(playlist).id \in played_ids
     THEN /\ pc' = "top"
          /\ dropped' = {Head(playlist).id}
          /\ UNCHANGED <<played_ids, evicted>>
     ELSE /\ played_ids' \in marked_played(played_ids, Head(playlist).id)
          /\ evicted' = popped(played_ids, Head(playlist).id, played_ids')
          /\ dropped' = {}
          /\ pc' = "download"
  /\ UNCHANGED <<is_on, task, cancel_req, skip_event, error_count, status_message_info,
                 query, result, modeVars, voteVars, stopping, fatal_notices,
                 dl_fail_streak, stale_timers, audio_sent>>
  /\ vote_ret = "none" /\ UNCHANGED vote_ret
  /\ UNCHANGED nonRadioVars

\* download_with_retry returns (line 410).
download_returns(r) ==
  /\ pc = "download"
  /\ ~cancel_req
  /\ result' = r
  /\ pc' = "result"
  /\ evicted' = {}
  /\ UNCHANGED <<dropped, audio_sent>>
  /\ UNCHANGED <<is_on, task, cancel_req, skip_event, error_count, status_message_info,
                 playlist, played_ids, query, modeVars, voteVars, stopping, fatal_notices,
                 dl_fail_streak, stale_timers>>
  /\ vote_ret = "none" /\ UNCHANGED vote_ret
  /\ UNCHANGED nonRadioVars

\* A failed download that is not counted.
error_count_after_uncounted(r) == IF r = "ok" THEN 0 ELSE error_count

\* A successful download that does not reset the budget.
error_count_after_no_reset(r) == IF r = "ok" THEN error_count ELSE error_count + 1

\* error_count after a download (lines 413 and 441).
error_count_after(r) == IF r = "ok" THEN 0 ELSE error_count + 1

\* Lines 412-443: a success resets the budget and goes on to send the audio; a
\* failure costs one error and sleeps 3 s.
handle_result ==
  /\ pc = "result"
  /\ error_count' = error_count_after(result)
  /\ dl_fail_streak' = IF result = "ok" THEN 0 ELSE Min(dl_fail_streak + 1, ERROR_LIMIT)
  /\ pc' = IF result = "ok" THEN "send" ELSE "fail_sleep"
  /\ result' = None
  /\ UNCHANGED <<is_on, task, cancel_req, skip_event, status_message_info, playlist,
                 played_ids, query, modeVars, voteVars, stopping, fatal_notices,
                 stale_timers, evicted, dropped, audio_sent>>
  /\ vote_ret = "none" /\ UNCHANGED vote_ret
  /\ UNCHANGED nonRadioVars

\* How _send_audio ends without raising: the file is sent; the file is not on
\* disk (lines 361-363: logged, return); bot.send_audio raises TelegramError
\* (lines 373-374: logged).
SendOutcomes == {"sent", "file_missing", "telegram_error"}

\* The audio reached the chat.
published(outcome) == outcome = "sent"

\* _send_audio is over (line 429) and the post-playback wait begins.
send_done(outcome) ==
  /\ pc = "send"
  /\ ~cancel_req
  /\ pc' = "wait"
  /\ audio_sent' = IF published(outcome) THEN "sent" ELSE "not_sent"
  /\ UNCHANGED <<is_on, task, cancel_req, skip_event, error_count, status_message_info,
                 playlist, played_ids, query, result, modeVars, voteVars, stopping,
                 fatal_notices, dl_fail_streak, stale_timers, evicted, dropped>>
  /\ vote_ret = "none" /\ UNCHANGED vote_ret
  /\ UNCHANGED nonRadioVars

\* A post-playback wait that is a plain sleep.
wait_ignores_skip == FALSE

\* wait_for(self._skip_event.wait(), timeout): the wait is over as soon as the
\* event is set, and otherwise when the timeout expires.
wait_over_by_skip == skip_event

\* Lines 432-436: the event ended the wait and is cleared.
wait_skipped ==
  /\ pc = "wait"
  /\ ~cancel_req
  /\ wait_over_by_skip
  /\ skip_event' = FALSE
  /\ pc' = "top"
  /\ UNCHANGED <<is_on, task, cancel_req, error_count, status_message_info, playlist,
                 played_ids, query, result, modeVars, voteVars, stopping, histVars>>
  /\ vote_ret = "none" /\ UNCHANGED vote_ret
  /\ UNCHANGED nonRadioVars

\* Lines 437-438: the timeout ended the wait.
wait_timeout ==
  /\ pc = "wait"
  /\ ~cancel_req
  /\ ~wait_over_by_skip
  /\ pc' = "top"
  /\ UNCHANGED <<is_on, task, cancel_req, skip_event, error_count, status_message_info,
                 playlist, played_ids, query, result, modeVars, voteVars, stopping,
                 histVars>>
  /\ vote_ret = "none" /\ UNCHANGED vote_ret
  /\ UNCHANGED nonRadioVars

\* A back-off sleep is over (lines 398, 443, 451).
sleep_done ==
  /\ pc \in {"empty_sleep", "fail_sleep", "exc_sleep"}
  /\ ~cancel_req
  /\ pc' = "top"
  /\ UNCHANGED <<is_on, task, cancel_req, skip_event, error_count, status_message_info,
                 playlist, played_ids, query, result, modeVars, voteVars, stopping,
                 histVars>>
  /\ vote_ret = "none" /\ UNCHANGED vote_ret
  /\ UNCHANGED nonRadioVars

\* CancelledError raised at an await inside the try: `break` (lines 445-447).
loop_cancelled ==
  /\ cancel_req
  /\ pc \in AwaitInTry
  /\ cancel_req' = FALSE
  /\ enter_epilogue
  /\ query' = None
  /\ evicted' = {}
  /\ UNCHANGED <<dropped, audio_sent>>
  /\ UNCHANGED <<is_on, task, skip_event, error_count, status_message_info, playlist,
                 played_ids, result, modeVars, voteVars, stopping, dl_fail_streak,
                 stale_timers>>
  /\ vote_ret = "none" /\ UNCHANGED vote_ret
  /\ UNCHANGED nonRadioVars

\* CancelledError raised outside the try (in the sleep of the except handler, in
\* the closing awaits): the task ends with it.
loop_cancelled_outside_try ==
  /\ cancel_req
  /\ pc \in AwaitOutsideTry
  /\ cancel_req' = FALSE
  /\ pc' = "done"
  /\ task' = "done"
  /\ UNCHANGED <<is_on, skip_event, error_count, status_message_info, playlist,
                 played_ids, query, result, modeVars, voteVars, stopping, histVars>>
  /\ vote_ret = "none" /\ UNCHANGED vote_ret
  /\ UNCHANGED nonRadioVars

\* Lines 461-469: the loop function returns.
loop_returns ==
  /\ pc = "epilogue"
  /\ ~cancel_req
  /\ is_on' = FALSE
  /\ status_message_info' = FALSE
  /\ pc' = "done"
  /\ task' = "done"
  /\ UNCHANGED <<cancel_req, skip_event, error_count, playlist, played_ids, query,
                 result, modeVars, voteVars, stopping, histVars>>
  /\ vote_ret = "none" /\ UNCHANGED vote_ret
  /\ UNCHANGED nonRadioVars

\* ----------------------------------------------------- download_with_retry

\* How one invocation of download ends: a successful result, a failure result, a
\* failure result whose error holds "503", None, an exception, or
\* asyncio.TimeoutError.
Outcomes == {"ok", "fail", "fail503", "no_result", "raise", "timeout"}

Exceptions == {"raise", "timeout"}

\* A result with success = True, as download returned it.
SuccessResult == [success |-> TRUE, error |-> None]

\* The result built after the loop (downloaders.py:66-69, base.py:67).
SummaryFailure == [success |-> FALSE, error |-> "summary"]

\* The call starts: the first iteration of `for attempt in range(MAX_RETRIES)`.
dwr_call(c) ==
  /\ dl_pc[c] = "idle"
  /\ dl_pc' = [dl_pc EXCEPT ![c] = "acquire"]
  /\ dl_attempt' = [dl_attempt EXCEPT ![c] = 0]
  /\ UNCHANGED <<dl_variant, semaphore, dl_ret, dl_calls, dl_last, dl_slept>>
  /\ UNCHANGED <<radioVars, cacheVars, startVars>>

\* A semaphore that admits everybody.
permit_free_unbounded == TRUE

\* asyncio.Semaphore.acquire returns when a permit is left.
permit_free == semaphore > 0

\* `async with self.semaphore:` is entered and download is invoked.
dwr_acquire(c) ==
  /\ dl_pc[c] = "acquire"
  /\ permit_free
  /\ semaphore' = semaphore - 1
  /\ dl_pc' = [dl_pc EXCEPT ![c] = "download"]
  /\ dl_calls' = [dl_calls EXCEPT ![c] = @ + 1]
  /\ dl_last' = [dl_last EXCEPT ![c] = None]
  /\ dl_slept' = [dl_slept EXCEPT ![c] = 0]
  /\ UNCHANGED <<dl_variant, dl_attempt, dl_ret>>
  /\ UNCHANGED <<radioVars, cacheVars, startVars>>

\* The test of downloaders.py:56; base.py has no such branch.
rate_limited(o) == dl_variant = "downloaders" /\ o = "fail503"

\* A loop that goes round once more than it should.
is_last_attempt_one_more(a) == a >= MAX_RETRIES

\* `attempt < MAX_RETRIES - 1` is false: this was the last iteration.
is_last_attempt(a) == a >= MAX_RETRIES - 1

\* After a failed attempt (downloaders.py:63-69): sleep before the next one, or
\* leave the loop and return the summary failure.
after_failed_attempt(c, pcs, rets) ==
  IF is_last_attempt(dl_attempt[c])
  THEN /\ dl_pc' = [pcs EXCEPT ![c] = "returned"]
       /\ dl_ret' = [rets EXCEPT ![c] = SummaryFailure]
  ELSE /\ dl_pc' = [pcs EXCEPT ![c] = "sleep"]
       /\ dl_ret' = rets

\* An except clause for timeouts only.
caught_only_timeout(o) == o = "timeout"

\* `except (asyncio.TimeoutError, Exception)` (downloaders.py:60) and the two
\* clauses of base.py:56-58 catch whatever download raises.
caught(o) == o \in Exceptions

\* download is over, by a result or by an exception; the permit is given back on
\* the way out of the `async with`.  An exception no clause catches leaves the call.
dwr_download_ends(c, o) ==
  /\ dl_pc[c] = "download"
  /\ semaphore' = semaphore + 1
  /\ dl_last' = [dl_last EXCEPT ![c] = o]
  /\ IF o = "ok"
     THEN /\ dl_pc' = [dl_pc EXCEPT ![c] = "returned"]
          /\ dl_ret' = [dl_ret EXCEPT ![c] = SuccessResult]
     ELSE IF o \in Exceptions /\ ~caught(o)
     THEN /\ dl_pc' = [dl_pc EXCEPT ![c] = "raised"]
          /\ UNCHANGED dl_ret
     ELSE IF rate_limited(o)
     THEN /\ dl_pc' = [dl_pc EXCEPT ![c] = "sleep503"]
          /\ UNCHANGED dl_ret
     ELSE after_failed_attempt(c, dl_pc, dl_ret)
  /\ UNCHANGED <<dl_variant, dl_attempt, dl_calls, dl_slept>>
  /\ UNCHANGED <<radioVars, cacheVars, startVars>>

\* A rate-limit pause that does not grow with the attempt.
rate_limit_sleep_flat(a) == RATE_LIMIT_DELAY_S

\* The pause after a rate-limit signal.
rate_limit_sleep(a) == RATE_LIMIT_DELAY_S * (a + 1)

\* `await asyncio.sleep(60 * (attempt + 1))` is over (downloaders.py:58).
dwr_sleep503_done(c) ==
  /\ dl_pc[c] = "sleep503"
  /\ dl_slept' = [dl_slept EXCEPT ![c] = @ + rate_limit_sleep(dl_attempt[c])]
  /\ after_failed_attempt(c, dl_pc, dl_ret)
  /\ UNCHANGED <<dl_variant, semaphore, dl_attempt, dl_calls, dl_last>>
  /\ UNCHANGED <<radioVars, cacheVars, startVars>>

\* A pause that does not grow with the attempt.
retry_sleep_flat(a) == RETRY_DELAY_S

\* The pause between two attempts.
retry_sleep(a) == RETRY_DELAY_S * (a + 1)

\* `await asyncio.sleep(RETRY_DELAY_S * (attempt + 1))` is over and the next
\* iteration begins.
dwr_sleep_done(c) ==
  /\ dl_pc[c] = "sleep"
  /\ dl_slept' = [dl_slept EXCEPT ![c] = @ + retry_sleep(dl_attempt[c])]
  /\ dl_attempt' = [dl_attempt EXCEPT ![c] = @ + 1]
  /\ dl_pc' = [dl_pc EXCEPT ![c] = "acquire"]
  /\ UNCHANGED <<dl_variant, semaphore, dl_ret, dl_calls, dl_last>>
  /\ UNCHANGED <<radioVars, cacheVars, startVars>>

\* A cancellation that leaves the `async with` without its exit.
released_on_cancel_never(c) == 0

\* __aexit__ of `async with self.semaphore` runs for a CancelledError as for any
\* exit: a call cancelled inside the block gives its permit back, one cancelled
\* while it waits for a permit or sleeps holds none.
released_on_cancel(c) == IF dl_pc[c] = "download" THEN 1 ELSE 0

\* The caller's task is cancelled (stop() cancels the radio loop): CancelledError
\* is no Exception, so it leaves download_with_retry from whatever await the call
\* stands at; inside the `async with` the permit is given back.
dwr_cancelled(c) ==
  /\ dl_pc[c] \in {"acquire", "download", "sleep503", "sleep"}
  /\ semaphore' = semaphore + released_on_cancel(c)
  /\ dl_pc' = [dl_pc EXCEPT ![c] = "cancelled"]
  /\ UNCHANGED <<dl_variant, dl_attempt, dl_ret, dl_calls, dl_last, dl_slept>>
  /\ UNCHANGED <<radioVars, cacheVars, startVars>>

\* ------------------------------------------------------------------- cache

\* The dict set() serialises.  CacheService takes track_info.__dict__, every field;
\* CacheManager lists title, artist, duration and source.
track_dict(t) ==
  IF t = Null \/ cache_class = "CacheService"
  THEN t
  ELSE [title |-> t.title, artist |-> t.artist, duration |-> t.duration, source |-> t.source]

result_dict(r) ==
  [success |-> r.success, file_path |-> r.file_path,
   track_info |-> track_dict(r.track_info), error |-> r.error]

\* TrackInfo(**d): a field the dict lacks takes its default (identifier = None).
TrackInfo(d) ==
  [title |-> d.title, artist |-> d.artist, duration |-> d.duration, source |-> d.source,
   identifier |-> IF "identifier" \in DOMAIN d THEN d.identifier ELSE None]

\* The DownloadResult get() builds of a stored dict.
decoded(p) ==
  [success |-> p.success, file_path |-> p.file_path,
   track_info |-> IF p.track_info = Null THEN Null ELSE TrackInfo(p.track_info),
   error |-> p.error]

\* A set() that stores whatever succeeded, track or no track.
cacheable_success_only(r) == r.success

\* set() stores successful results that carry a track and nothing else.
cacheable(r) == r.success /\ r.track_info # Null

\* CacheService.initialize (main.py:96 calls it before polling starts) and
\* CacheManager._init_db (called by get and set): the table is created, unless
\* the database fails.
initialize_effect(db_ok) == initialized \/ db_ok

cache_initialize(db_ok) ==
  /\ cache_class = "CacheService"
  /\ initialized' = initialize_effect(db_ok)
  /\ cache_op' = NoOp
  /\ UNCHANGED <<cache_class, rows, files, cache_ret>>
  /\ UNCHANGED <<radioVars, retryVars, startVars>>

\* initialized as get and set see it: CacheManager initialises on demand.
initialized_on_entry(db_ok) ==
  IF cache_class = "CacheManager" THEN initialize_effect(db_ok) ELSE initialized

\* set(query, source, result): INSERT OR REPLACE, created_at = now.  A database
\* error is logged and swallowed.
cache_set(q, s, r, db_ok) ==
  /\ IF cacheable(r)
     THEN /\ initialized' = initialized_on_entry(db_ok)
          /\ rows' = IF initialized' /\ db_ok
                     THEN [rows EXCEPT ![get_cache_id(q, s)] =
                             [payload |-> result_dict(r), age |-> 0]]
                     ELSE rows
     ELSE UNCHANGED <<initialized, rows>>
  /\ cache_op' = [op |-> "set", k |-> get_cache_id(q, s), r |-> r,
                  done |-> cacheable(r) /\ initialized' /\ db_ok]
  /\ UNCHANGED <<cache_class, files, cache_ret>>
  /\ UNCHANGED <<radioVars, retryVars, startVars>>

\* The row a get selects.  CacheManager's SELECT asks for age < TTL; CacheService's
\* does not look at created_at.
selected(k) ==
  IF rows[k] = NoRow THEN FALSE
  ELSE IF cache_class = "CacheManager" THEN rows[k].age < CACHE_TTL
  ELSE TRUE

\* CacheManager tests os.path.exists(file_path) before it returns a row;
\* CacheService returns the row as it is.
artifact_missing(k) ==
  /\ cache_class = "CacheManager"
  /\ rows[k].payload.file_path # None
  /\ rows[k].payload.file_path \notin files

\* json.loads fails on the row, or TrackInfo(**...) does (CacheService: on null).
undecodable(p) ==
  \/ p = Corrupt
  \/ cache_class = "CacheService" /\ p.track_info = Null

\* An exception is raised inside the try of get: the database call fails, or the
\* row selected cannot be decoded.
get_raises(k, ready, db_ok) ==
  ready /\ (~db_ok \/ (selected(k) /\ undecodable(rows[k].payload)))

\* The call of get ended by an exception.
Raised == [raised |-> TRUE]

\* A get without its except clause.
on_get_exception_propagates == Raised

\* `except Exception` of get: a warning is logged and None returned.
on_get_exception == Null

\* What get returns: None, or the decoded row.
get_result(k, ready, db_ok) ==
  IF ~ready THEN Null
  ELSE IF get_raises(k, ready, db_ok) THEN on_get_exception
  ELSE IF ~selected(k) THEN Null
  ELSE IF artifact_missing(k) THEN Null
  ELSE decoded(rows[k].payload)

\* The table after get: CacheManager deletes the row it did not select and the
\* row whose file is gone; CacheService deletes nothing.
get_rows(k, ready, db_ok) ==
  IF ~ready \/ get_raises(k, ready, db_ok) \/ cache_class = "CacheService" THEN rows
  ELSE IF ~selected(k) \/ artifact_missing(k) THEN [rows EXCEPT ![k] = NoRow]
  ELSE rows

\* get(query, source).
cache_get(q, s, db_ok) ==
  /\ initialized' = initialized_on_entry(db_ok)
  /\ cache_ret' = get_result(get_cache_id(q, s), initialized', db_ok)
  /\ rows' = get_rows(get_cache_id(q, s), initialized', db_ok)
  /\ cache_op' = [op |-> "get", k |-> get_cache_id(q, s), r |-> Null,
                  done |-> initialized' /\ db_ok]
  /\ UNCHANGED <<cache_class, files>>
  /\ UNCHANGED <<radioVars, retryVars, startVars>>

\* CacheService._cleanup_loop, once an hour: DELETE ... WHERE age > ttl.
cleanup_sweep ==
  /\ cache_class = "CacheService"
  /\ initialized
  /\ rows' = [k \in CacheIds |-> IF rows[k].age > CACHE_TTL THEN NoRow ELSE rows[k]]
  /\ cache_op' = NoOp
  /\ UNCHANGED <<cache_class, initialized, files, cache_ret>>
  /\ UNCHANGED <<radioVars, retryVars, startVars>>

\* Time passes: every row is one tick older (ages above the TTL are not told apart).
time_passes ==
  /\ \E k \in CacheIds : rows[k] # NoRow /\ rows[k].age <= CACHE_TTL
  /\ rows' = [k \in CacheIds |->
                IF rows[k] # NoRow /\ rows[k].age <= CACHE_TTL
                THEN [rows[k] EXCEPT !.age = @ + 1] ELSE rows[k]]
  /\ cache_op' = NoOp
  /\ UNCHANGED <<cache_class, initialized, files, cache_ret>>
  /\ UNCHANGED <<radioVars, retryVars, startVars>>

\* The result_json of a row is not what this class wrote: the database file is
\* shared with whatever else writes it.
row_corrupted(k) ==
  /\ rows[k] # NoRow
  /\ rows[k].payload # Corrupt
  /\ rows' = [rows EXCEPT ![k].payload = Corrupt]
  /\ cache_op' = NoOp
  /\ UNCHANGED <<cache_class, initialized, files, cache_ret>>
  /\ UNCHANGED <<radioVars, retryVars, startVars>>

\* A download writes its mp3 file (downloaders.py:266-276).
artifact_written(f) ==
  /\ f \notin files
  /\ files' = files \cup {f}
  /\ cache_op' = NoOp
  /\ UNCHANGED <<cache_class, initialized, rows, cache_ret>>
  /\ UNCHANGED <<radioVars, retryVars, startVars>>

\* _send_audio removes the file it has sent (radio.py:375-379).
artifact_removed(f) ==
  /\ f \in files
  /\ files' = files \ {f}
  /\ cache_op' = NoOp
  /\ UNCHANGED <<cache_class, initialized, rows, cache_ret>>
  /\ UNCHANGED <<radioVars, retryVars, startVars>>

\* ---------------------------------------------------------- specifications

Commands ==
  \/ skip
  \/ start
  \/ stop_begin
  \/ stop_end
  \/ \E g \in RADIO_GENRES, sent \in BOOLEAN : set_admin_genre(g, sent)
  \/ \E a \in {"abba"} : set_artist_mode(a)
  \/ \E m \in MoodInputs, sent \in BOOLEAN : set_mood(m, sent)

VoteTasks ==
  \/ \E S \in Samples, armed \in BOOLEAN : start_genre_vote(S, armed)
  \/ vote_timer_expires
  \/ mode_time_elapses

LoopSteps ==
  \/ loop_start
  \/ loop_top
  \/ loop_pop
  \/ handle_result
  \/ \E o \in SendOutcomes : send_done(o)
  \/ wait_skipped
  \/ wait_timeout
  \/ sleep_done
  \/ loop_cancelled
  \/ loop_cancelled_outside_try
  \/ loop_returns

\* The radio with an unreliable provider: searches find any tracks or none or
\* raise, downloads succeed or fail.  No ballot is cast.
Next ==
  \/ Commands
  \/ VoteTasks
  \/ LoopSteps
  \/ \E F \in SearchResults : search_returns(F)
  \/ \E F \in SearchResults : search_relaxed_returns(F)
  \/ loop_raises
  \/ \E r \in {"ok", "fail"} : download_returns(r)

Spec == Init /\ [][Next]_vars

\* The radio with voters and a provider whose search finds the one track there is
\* or raises, and whose downloads succeed.
NextVote ==
  \/ Commands
  \/ VoteTasks
  \/ LoopSteps
  \/ \E g \in RADIO_GENRES, v \in Voters : register_vote(g, v)
  \/ vote_answered
  \/ search_returns({1})
  \/ loop_raises
  \/ download_returns("ok")

SpecVote == Init /\ [][NextVote]_vars

\* download_with_retry, either variant, called by two callers; download ends in
\* every way it can.
RetryCallers == {1, 2}

InitRetryVariants ==
  /\ InitRadio
  /\ dl_variant \in {"downloaders", "base"}
  /\ InitRetry
  /\ cache_class = "CacheService"
  /\ InitCache

NextRetry ==
  \/ \E c \in RetryCallers : dwr_call(c)
  \/ \E c \in RetryCallers : dwr_acquire(c)
  \/ \E c \in RetryCallers, o \in Outcomes : dwr_download_ends(c, o)
  \/ \E c \in RetryCallers : dwr_sleep503_done(c)
  \/ \E c \in RetryCallers : dwr_sleep_done(c)
  \/ \E c \in RetryCallers : dwr_cancelled(c)

SpecRetry == InitRetryVariants /\ [][NextRetry]_vars

\* download_with_retry of downloaders.py under contention: more callers than
\* permits, downloads that succeed or fail.  Caller 1 is the radio loop, the one
\* caller stop() can cancel; the others are /play and /d handlers.
RADIO_CALLER == 1

NextAdmission ==
  \/ \E c \in Callers : dwr_call(c)
  \/ \E c \in Callers : dwr_acquire(c)
  \/ \E c \in Callers, o \in {"ok", "fail"} : dwr_download_ends(c, o)
  \/ \E c \in Callers : dwr_sleep_done(c)
  \/ dwr_cancelled(RADIO_CALLER)

SpecAdmission == Init /\ [][NextAdmission]_vars

\* The cache, of either class, with a database that may fail, files that come and
\* go and time that passes.
InitCacheClasses ==
  /\ InitRadio
  /\ dl_variant = "downloaders"
  /\ InitRetry
  /\ cache_class \in {"CacheService", "CacheManager"}
  /\ InitCache

NextCache ==
  \/ \E db_ok \in BOOLEAN : cache_initialize(db_ok)
  \/ \E q \in Queries, s \in Sources, r \in Results, db_ok \in BOOLEAN : cache_set(q, s, r, db_ok)
  \/ \E q \in Queries, s \in Sources, db_ok \in BOOLEAN : cache_get(q, s, db_ok)
  \/ cleanup_sweep
  \/ time_passes
  \/ \E k \in CacheIds : row_corrupted(k)
  \/ \E f \in FilePaths : artifact_written(f)
  \/ \E f \in FilePaths : artifact_removed(f)

SpecCache == InitCacheClasses /\ [][NextCache]_vars

\* ------------------------------------------- the loop with a provider that finds
\* The radio is started and left on; every search finds at least one track and
\* none raises; downloads succeed or fail.
LoopLive ==
  \/ loop_start
  \/ loop_top
  \/ \E F \in SearchResults \ {{}} : search_returns(F)
  \/ loop_pop
  \/ \E r \in {"ok", "fail"} : download_returns(r)
  \/ handle_result
  \/ \E o \in SendOutcomes : send_done(o)
  \/ wait_skipped
  \/ wait_timeout
  \/ sleep_done
  \/ loop_returns

VoteLive ==
  \/ \E S \in Samples, armed \in BOOLEAN : start_genre_vote(S, armed)
  \/ vote_timer_expires
  \/ mode_time_elapses

NextLive ==
  \/ start
  \/ LoopLive
  \/ VoteLive

\* The event loop runs every task that is ready, sleeps and waits end, and the
\* provider answers: a step of the loop or of a vote task that stays possible is
\* taken.
SpecLive == Init /\ [][NextLive]_vars /\ WF_vars(LoopLive) /\ WF_vars(VoteLive)

\* ------------------------------------------------- start() calls that overlap
\* start() up to its first await: the test of line 67 passes when there is no task
\* or the task is done, and the call waits for send_message and pin_chat_message
\* (lines 71-77).  A call that finds a task running returns and changes nothing.
start_called ==
  /\ HandlerCanRun
  /\ task # "running"
  /\ starts_in_flight + orphan_tasks < MaxStarts
  /\ starts_in_flight' = starts_in_flight + 1
  /\ UNCHANGED <<radioVars, retryVars, cacheVars, orphan_tasks>>

\* start() after the awaits (lines 83-97): the task is created without a second
\* look at self._task; a task that another call created meanwhile stays alive
\* and self._task no longer refers to it.
start_resumes ==
  /\ HandlerCanRun
  /\ starts_in_flight > 0
  /\ start_mode_end_time = "none" => vote_timers < MaxVoteTimers
  /\ start_effect
  /\ starts_in_flight' = starts_in_flight - 1
  /\ orphan_tasks' = orphan_tasks + (IF task = "running" THEN 1 ELSE 0)
  /\ UNCHANGED <<retryVars, cacheVars>>

\* Line 385 in a task self._task does not refer to: it ends once the radio is
\* off.  Its other steps are left out; it is counted as alive until then.
orphan_exits ==
  /\ orphan_tasks > 0
  /\ ~is_on
  /\ orphan_tasks' = orphan_tasks - 1
  /\ UNCHANGED <<radioVars, retryVars, cacheVars, starts_in_flight>>

\* The radio with start() called by callers that do not wait for one another,
\* and a provider whose search finds the one track there is or raises.
NextStart ==
  \/ start_called
  \/ start_resumes
  \/ orphan_exits
  \/ Commands
  \/ VoteTasks
  \/ LoopSteps
  \/ search_returns({1})
  \/ loop_raises
  \/ \E r \in {"ok", "fail"} : download_returns(r)

SpecStart == Init /\ [][NextStart]_vars

\* ------------------------------------------- YouTubeDownloader.download's key
\* What download is called with: free-text queries that differ in case and in
\* blanks at either end, and the identifiers of two videos, which differ in the
\* case of one letter.
FreeTexts == {<<"a">>, <<"A">>, <<" ", "a">>, <<"a", " ">>}
ID_LEN == 11
VideoId == [i \in 1..ID_LEN |-> IF i = 1 THEN "A" ELSE "b"]
VideoIdLower == [i \in 1..ID_LEN |-> IF i = 1 THEN "a" ELSE "b"]
VideoIds == {VideoId, VideoIdLower}
DownloadInputs == FreeTexts \cup VideoIds

\* Line 228: re.match(r"^[a-zA-Z0-9_-]{11}$", query_or_id).
\* The characters listed are those of [a-zA-Z0-9_-] the queries here are written in.
is_id(q) == Len(q) = ID_LEN /\ \A i \in 1..Len(q) : q[i] \in {"a", "A", "b", "B"}

\* Line 230: an identifier is its own key, a query gets the prefix "search:".
cache_key(q) == IF is_id(q) THEN q ELSE <<"search:">> \o q


\* Lines 230-233: download looks its key up before anything else.
download_lookup(q, db_ok) == cache_get(cache_key(q), "YouTube", db_ok)

\* Lines 236-246: the video a download fetches is the one named, or the best
\* match of the query.
track_identifier(q) ==
  IF q = VideoId THEN "Abbbbbbbbbb" ELSE IF q = VideoIdLower THEN "abbbbbbbbbb" ELSE "match000000"

\* Lines 253-278: the result of a download that fetched its file; the file is
\* DOWNLOADS_DIR/<identifier>.mp3 and is told by the identifier here.
fetched(q) ==
  [success |-> TRUE, file_path |-> track_identifier(q),
   track_info |-> [title |-> "t1", artist |-> "a1", duration |-> 1, source |-> "YouTube",
                   identifier |-> track_identifier(q)],
   error |-> None]

DownloadPaths == {track_identifier(q) : q \in DownloadInputs}

\* Lines 278-280: a download that fetched its file stores the result under the
\* key its lookup used.
download_store(q, db_ok) == cache_set(cache_key(q), "YouTube", fetched(q), db_ok)

InitDownloadCache ==
  /\ InitRadio
  /\ dl_variant = "downloaders"
  /\ InitRetry
  /\ cache_class \in {"CacheService", "CacheManager"}
  /\ cache_op = NoOp
  /\ initialized = FALSE
  /\ rows = [k \in {get_cache_id(cache_key(q), "YouTube") : q \in DownloadInputs} |-> NoRow]
  /\ files = {}
  /\ cache_ret = [unset |-> TRUE]

NextDownloadCache ==
  \/ \E db_ok \in BOOLEAN : cache_initialize(db_ok)
  \/ \E q \in DownloadInputs, db_ok \in BOOLEAN : download_lookup(q, db_ok)
  \/ \E q \in DownloadInputs, db_ok \in BOOLEAN : download_store(q, db_ok)
  \/ \E f \in DownloadPaths : artifact_written(f)
  \/ \E f \in DownloadPaths : artifact_removed(f)

SpecDownloadCache == InitDownloadCache /\ [][NextDownloadCache]_vars

\* A vote from its start to its resolution, for any sample of candidates: the
\* radio is on and plays a track, the vote has just started, ballots are cast in
\* any order, and the timer resolves the vote.
InitVoteRunning ==
  /\ is_on = TRUE
  /\ task = "running"
  /\ cancel_req = FALSE
  /\ pc = "wait"
  /\ skip_event = FALSE
  /\ error_count = 0
  /\ status_message_info = TRUE
  /\ playlist = <<>>
  /\ played_ids = {1}
  /\ artist_mode = None
  /\ winning_genre = DEFAULT_GENRE
  /\ current_mood = None
  /\ mode_end_time = "future"
  /\ vote_in_progress = TRUE
  /\ votes = <<>>
  /\ current_vote_genres \in (SUBSET RADIO_GENRES) \ {{}}
  /\ vote_new = 0
  /\ vote_timers = 1
  /\ vote_ret = "none"
  /\ query = None
  /\ result = None
  /\ stopping = FALSE
  /\ fatal_notices = 0
  /\ dl_fail_streak = 0
  /\ stale_timers = 0
  /\ evicted = {}
  /\ dropped = {}
  /\ audio_sent = "none"
  /\ starts_in_flight = 0
  /\ orphan_tasks = 0
  /\ last_mode_op = "start_genre_vote"
  /\ dl_variant = "downloaders"
  /\ InitRetry
  /\ cache_class = "CacheService"
  /\ InitCache

NextResolve ==
  \/ \E g \in RADIO_GENRES, v \in Voters : register_vote(g, v)
  \/ vote_answered
  \/ vote_timer_expires

SpecResolve == InitVoteRunning /\ [][NextResolve]_vars

\* ------------------------------------------------------------------ claims

\* C1: once download_with_retry has failed ERROR_LIMIT (10, scaled) times in a row with no
\* success in between, the loop is out of its main loop (it searches, pops, downloads
\* and sends no more); when it has left, the "stopped because of errors" notice
\* has been sent exactly once in this run; and when it is done the radio is off.
C1_TenFailuresStopRadio ==
  /\ fatal_notices <= 1
  /\ dl_fail_streak = ERROR_LIMIT =>
       /\ pc \in {"fail_sleep", "top", "epilogue", "done", "none"}
       /\ pc \in {"epilogue", "done", "none"} => fatal_notices = 1
       /\ pc \in {"done", "none"} => ~is_on

\* C1 witness: the loop ended by itself after ten failed downloads in a row.
C1_Witness ==
  /\ dl_fail_streak = ERROR_LIMIT
  /\ task = "done"
  /\ ~stopping
  /\ fatal_notices = 1
  /\ ~is_on

\* C2: a successful download sets error_count to zero, start() sets it to zero, and
\* apart from these it only ever grows by one, at a failure of the loop (an empty
\* search, an exception, a failed download).
C2_SuccessResetsErrorCount ==
  [][ /\ (pc = "result" /\ result = "ok") => error_count' = 0
      /\ pc' = "created" => error_count' = 0
      /\ error_count' # error_count =>
           \/ error_count' = 0
           \/ /\ error_count' = error_count + 1
              /\ pc \in {"search", "search_relaxed", "send", "result"}
    ]_vars

\* C2 witness: a download has succeeded while the budget counted errors.
C2_Witness == pc = "result" /\ result = "ok" /\ error_count > 0

\* C3: skip() during the post-playback wait sets the event; with the event set the
\* wait can end at once and cannot end by its timeout; the step that ends it
\* clears the event and takes the loop to its next iteration, which the while test
\* lets run.
C3_SkipEndsWait ==
  /\ [][(pc = "wait" /\ skip) => skip_event']_vars
  /\ [](pc = "wait" /\ skip_event /\ ~cancel_req =>
          ENABLED wait_skipped /\ ~ENABLED wait_timeout)
  /\ [][(pc = "wait" /\ skip_event /\ ~cancel_req /\ pc' # pc) =>
          (pc' = "top" /\ ~skip_event' /\ is_on' /\ error_count' < ERROR_LIMIT)]_vars

\* C3 witness: the loop is in its post-playback wait and the skip event is set.
C3_Witness == pc = "wait" /\ skip_event /\ ~cancel_req /\ is_on

\* C4: when stop() has returned there is no live loop (its function has returned,
\* so it pops, downloads and sends nothing more) and the radio is off; and once
\* stop() has cancelled the task, the cancellation can be delivered at once,
\* whatever the loop waits for, and the loop's next step is its way out.
C4_StopCancelsAndJoins ==
  /\ [](task = "none" => pc = "none" /\ ~is_on /\ ~cancel_req)
  /\ [](cancel_req => ENABLED (loop_cancelled \/ loop_cancelled_outside_try))
  /\ [][(cancel_req /\ pc' # pc) => pc' \in {"epilogue", "done"}]_vars

\* C4 witness: stop() has returned after cancelling a loop that had played a track
\* and had budget left.
C4_Witness ==
  /\ task = "none"
  /\ ~stopping
  /\ played_ids # {}
  /\ error_count < ERROR_LIMIT
  /\ ~is_on

\* C5 (as claimed): when stop() has returned no vote is in progress and no armed
\* vote timer is left, so that no later expiry runs end_genre_vote.
C5_StopCancelsVoteTimer ==
  task = "none" => (~vote_in_progress /\ vote_timers = 0 /\ vote_new = 0)

\* C6 (as claimed): exactly one of winning_genre, current_mood and artist_mode is set.
C6_ExactlyOneMode ==
  Cardinality({f \in {"genre", "mood", "artist"} :
                 \/ f = "genre" /\ winning_genre # None
                 \/ f = "mood" /\ current_mood # None
                 \/ f = "artist" /\ artist_mode # None}) = 1

\* C7 (as claimed): when the mode was last changed by set_admin_genre,
\* set_artist_mode, set_mood or a vote resolution, every track of the playlist was
\* found by a query the present mode produces.
C7_NoStaleTracks ==
  last_mode_op \in {"set_admin_genre", "set_artist_mode", "set_mood", "end_genre_vote"} =>
    \A i \in 1..Len(playlist) : playlist[i].q \in next_query_terms

\* The genres whose ballot set holds the voter.
BallotsOf(d, v) == {i \in 1..Len(d) : v \in d[i].s}

\* C8: every voter is in the ballot set of at most one genre, and an accepted
\* register_vote(g, v) leaves v in the set of g and in no other.
C8_OneBallotPerVoter ==
  /\ [](\A v \in Voters : Cardinality(BallotsOf(votes, v)) <= 1)
  /\ [][\A g \in RADIO_GENRES, v \in Voters :
          (vote_in_progress /\ register_vote(g, v)) =>
            /\ HasKey(votes', g)
            /\ \A i \in 1..Len(votes') : (v \in votes'[i].s) <=> (votes'[i].g = g)]_vars

\* C8 witness: during a vote a voter has moved the ballot from the first genre of
\* the tally to the second.
C8_Witness ==
  /\ vote_in_progress
  /\ Len(votes) = 2
  /\ votes[1].s = {}
  /\ 1 \in votes[2].s

\* C9: when the timer resolves a running vote whose tally holds a ballot,
\* winning_genre becomes a genre of the tally whose ballot set is of maximum size.
C9_WinnerHasMostBallots ==
  [][(vote_in_progress /\ vote_timers' < vote_timers /\ \E i \in 1..Len(votes) : votes[i].s # {}) =>
       \E w \in 1..Len(votes) :
         /\ winning_genre' = votes[w].g
         /\ \A j \in 1..Len(votes) : Cardinality(votes[j].s) <= Cardinality(votes[w].s)]_vars

\* C9 witness: a vote was resolved for the second genre of the tally, which had
\* more ballots than the first.
C9_Witness ==
  /\ last_mode_op = "end_genre_vote"
  /\ Len(votes) = 2
  /\ Cardinality(votes[1].s) < Cardinality(votes[2].s)
  /\ winning_genre = votes[2].g

C11_OverrideCancelsResolution ==
  [][(stale_timers > 0 /\ vote_timers' < vote_timers) =>
       UNCHANGED <<winning_genre, mode_end_time, playlist, last_mode_op>>]_vars

\* C12: one call invokes download at most MAX_RETRIES times, and a successful
\* invocation ends the call at once with that result.
C12_AtMostNAttempts ==
  \A c \in Callers :
    /\ dl_calls[c] <= MAX_RETRIES
    /\ dl_last[c] = "ok" => (dl_pc[c] = "returned" /\ dl_ret[c] = SuccessResult)
    /\ dl_pc[c] = "returned" => (dl_ret[c] = SuccessResult <=> dl_last[c] = "ok")

\* C12 witness: a call succeeded at its last permitted attempt.
C12_Witness ==
  /\ dl_pc[1] = "returned"
  /\ dl_ret[1] = SuccessResult
  /\ dl_calls[1] = MAX_RETRIES

\* C13: when attempt k+1 is about to start after attempt k failed by a failure
\* result, by None or by an exception, the call has slept RETRY_DELAY_S * k or more
\* since attempt k ended.
C13_LinearBackoff ==
  \A c \in Callers :
    (dl_pc[c] = "acquire" /\ dl_last[c] \in {"fail", "no_result", "raise", "timeout"}) =>
      /\ dl_attempt[c] >= 1
      /\ dl_slept[c] >= RETRY_DELAY_S * dl_attempt[c]

\* C13 witness: the third attempt is about to start after the second raised.
C13_Witness ==
  /\ dl_pc[1] = "acquire"
  /\ dl_attempt[1] = 2
  /\ dl_last[1] = "raise"
  /\ dl_slept[1] = RETRY_DELAY_S * 2

\* C14 (as claimed): in downloaders.py, when attempt k+1 is about to start after
\* attempt k ended with a "503" failure, the call has slept 60 * k and no more (the
\* normal delay is replaced), and k invocations have been made.
C14_RateLimitReplacesDelay ==
  \A c \in Callers :
    (dl_variant = "downloaders" /\ dl_pc[c] = "acquire" /\ dl_last[c] = "fail503") =>
      /\ dl_slept[c] = RATE_LIMIT_DELAY_S * dl_attempt[c]
      /\ dl_calls[c] = dl_attempt[c]

\* C14 (amended): in downloaders.py, when attempt k+1 is about to start after
\* attempt k ended with a "503" failure, the call has slept 60 * k and then the
\* normal RETRY_DELAY_S * k, and k invocations have been made; after a "503" at
\* the last attempt the call sleeps 60 * MAX_RETRIES and returns the summary failure.
C14_RateLimitAddsDelay ==
  \A c \in Callers :
    (dl_variant = "downloaders" /\ dl_last[c] = "fail503") =>
      /\ dl_pc[c] = "acquire" =>
           /\ dl_slept[c] = (RATE_LIMIT_DELAY_S + RETRY_DELAY_S) * dl_attempt[c]
           /\ dl_calls[c] = dl_attempt[c]
      /\ dl_pc[c] = "returned" =>
           /\ dl_slept[c] = RATE_LIMIT_DELAY_S * MAX_RETRIES
           /\ dl_calls[c] = MAX_RETRIES
           /\ dl_ret[c] = SummaryFailure

\* C14 witness: the third attempt is about to start after the second was rate-limited.
C14_Witness ==
  /\ dl_variant = "downloaders"
  /\ dl_pc[1] = "acquire"
  /\ dl_attempt[1] = 2
  /\ dl_last[1] = "fail503"

\* C15: no exception of download leaves the call; an invocation that raised is one
\* of the MAX_RETRIES attempts; and a call none of whose attempts succeeded returns
\* a result with success false and an error text, after MAX_RETRIES invocations.
C15_NoExceptionEscapes ==
  \A c \in Callers :
    /\ dl_pc[c] # "raised"
    /\ dl_pc[c] = "acquire" => dl_calls[c] = dl_attempt[c]
    /\ dl_pc[c] \in {"download", "sleep503", "sleep"} => dl_calls[c] = dl_attempt[c] + 1
    /\ (dl_pc[c] = "returned" /\ dl_last[c] # "ok") =>
         /\ dl_ret[c].success = FALSE
         /\ dl_ret[c].error # None
         /\ dl_calls[c] = MAX_RETRIES

\* C15 witness: a call whose last attempt raised has returned the summary failure.
C15_Witness ==
  /\ dl_pc[1] = "returned"
  /\ dl_last[1] = "raise"
  /\ dl_ret[1] = SummaryFailure

\* C16: at most SEM_PERMITS (3) invocations of download are in progress.
C16_AtMostThreeDownloads ==
  /\ Cardinality({c \in Callers : dl_pc[c] = "download"}) <= SEM_PERMITS
  /\ semaphore = SEM_PERMITS - Cardinality({c \in Callers : dl_pc[c] = "download"})

\* C16 witness: three downloads are in progress and a fourth caller waits for a permit.
C16_Witness ==
  /\ Cardinality({c \in Callers : dl_pc[c] = "download"}) = SEM_PERMITS
  /\ \E c \in Callers : dl_pc[c] = "acquire"

\* C17: a set that stored a successful result with a track, followed at once by a
\* get of the same (query, source) that reaches the database, the artifact being on
\* disk, returns a result equal to the stored one in every field, the track's
\* identifier included.
C17_SetThenGetRoundTrip ==
  [][(/\ cache_op.op = "set" /\ cache_op.done
      /\ cache_op'.op = "get" /\ cache_op'.done
      /\ cache_op'.k = cache_op.k
      /\ cache_op.r.file_path \in files)
     => cache_ret' = cache_op.r]_vars

\* C18: a get that reaches the database and finds an entry whose artifact file is
\* gone returns None and removes the entry.
C18_MissingArtifactIsPurged ==
  [][(/\ cache_op'.op = "get" /\ cache_op'.done
      /\ rows[cache_op'.k] # NoRow
      /\ rows[cache_op'.k].payload # Corrupt
      /\ rows[cache_op'.k].payload.file_path \notin files)
     => (cache_ret' = Null /\ rows'[cache_op'.k] = NoRow)]_vars

\* C19: a get that reaches the database and finds an entry older than the TTL
\* returns None and removes the entry, whether the sweep has run or not.
C19_ExpiredEntryIsEvictedOnLookup ==
  [][(/\ cache_op'.op = "get" /\ cache_op'.done
      /\ rows[cache_op'.k] # NoRow
      /\ rows[cache_op'.k].age > CACHE_TTL)
     => (cache_ret' = Null /\ rows'[cache_op'.k] = NoRow)]_vars

\* C20: a set whose result is not successful or carries no track changes nothing of
\* the store (no row is created or replaced, nothing is initialised), so every get
\* returns after it what it would have returned before it.
C20_FailedSetLeavesStore ==
  [][(/\ cache_op'.op = "set"
      /\ ~(cache_op'.r.success /\ cache_op'.r.track_info # Null))
     => /\ rows' = rows
        /\ initialized' = initialized
        /\ files' = files
        /\ \A k \in CacheIds, db_ok \in BOOLEAN :
             get_result(k, initialized_on_entry(db_ok), db_ok)' =
               get_result(k, initialized_on_entry(db_ok), db_ok)]_vars

\* C20 witness: set was called with a failed result for a key that holds an entry.
C20_Witness ==
  /\ cache_op.op = "set"
  /\ cache_op.r = ResultFailed
  /\ rows[cache_op.k] # NoRow

\* C21: the recency set never holds more than PLAYED_MAX (500) identifiers once a
\* mark-played step is over; a mark that found the set full leaves exactly
\* PLAYED_MAX members, one member having been removed.
C21_RecencySetBounded ==
  /\ Cardinality(played_ids) <= PLAYED_MAX
  /\ evicted # {} => /\ Cardinality(played_ids) = PLAYED_MAX
                     /\ Cardinality(evicted) = 1
                     /\ evicted \cap played_ids = {}

\* C21 witness: an identifier was marked when the set was full, one member was
\* removed, and the loop goes on to download.
C21_Witness ==
  /\ evicted # {}
  /\ pc = "download"
  /\ Cardinality(played_ids) = PLAYED_MAX

\* C22: when marking a track played overfills the recency set, the member evicted
\* is the oldest one, a member marked earlier: the identifier just marked is never
\* the one evicted, and is a member when the download starts.
C22_EvictsOldestNotNewest ==
  [][(pc = "pop" /\ pc' = "download") =>
       /\ Head(playlist).id \notin evicted'
       /\ Head(playlist).id \in played_ids']_vars

\* C23: register_vote called when no vote is in progress returns False and leaves
\* the tally and every other part of the radio's state as it was; called while a
\* vote is in progress it returns True.
C23_RefusedBallotChangesNothing ==
  [][\A g \in RADIO_GENRES, v \in Voters :
       (vote_ret' # "none" /\ register_vote(g, v)) =>
         IF vote_in_progress
         THEN vote_ret' = "True"
         ELSE /\ vote_ret' = "False"
              /\ UNCHANGED <<is_on, task, cancel_req, pc, skip_event, error_count,
                             status_message_info, playlist, played_ids, artist_mode,
                             winning_genre, current_mood, mode_end_time,
                             vote_in_progress, votes, current_vote_genres, vote_new,
                             vote_timers, query, result>>]_vars

\* C23 witness: the last register_vote was refused, and the tally still holds the
\* ballots of the vote that is over.
C23_Witness ==
  /\ vote_ret = "False"
  /\ ~vote_in_progress
  /\ \E i \in 1..Len(votes) : votes[i].s # {}

\* C24: get never ends by an exception: when the store is not initialised, when
\* the database call fails, or when the row cannot be decoded, get returns None.
C24_GetAbsorbsStoreErrors ==
  /\ [](cache_ret # Raised)
  /\ [][(/\ cache_op'.op = "get"
         /\ \/ ~cache_op'.done
            \/ rows[cache_op'.k].payload = Corrupt)
        => cache_ret' = Null]_vars

\* C24 witness: a get reached the database, found a row it could not decode, and
\* returned None.
C24_Witness ==
  /\ cache_op.op = "get"
  /\ cache_op.done
  /\ rows[cache_op.k].payload = Corrupt
  /\ cache_ret = Null

\* C25: at most one vote runs at a time.  One timer at most belongs to a vote that
\* still runs, and one exactly while a vote is in progress; a start_genre_vote task
\* never finds a vote in progress, and changes nothing if it does; the loop
\* creates such a task only when no vote is in progress and the mode has no expiry
\* or is past it, and sets the expiry to the future in the same step.
C25_AtMostOneVoteRuns ==
  /\ [](/\ vote_timers - stale_timers = (IF vote_in_progress THEN 1 ELSE 0)
        /\ vote_new <= 1
        /\ vote_new > 0 => ~vote_in_progress)
  /\ [][/\ (vote_new' < vote_new /\ vote_in_progress) =>
             UNCHANGED <<vote_in_progress, votes, current_vote_genres, vote_timers,
                         artist_mode, current_mood>>
        /\ vote_new' > vote_new =>
             /\ ~vote_in_progress
             /\ mode_end_time \in {"none", "past"}
             /\ mode_end_time' = "future"
        /\ (vote_in_progress' /\ ~vote_in_progress) => vote_new' < vote_new]_vars

\* C25 witness: the radio was restarted during a vote with no mode set; the loop
\* has passed its vote trigger with the mode expired and has created no second vote.
C25_Witness ==
  /\ vote_in_progress
  /\ mode_end_time = "none"
  /\ pc \in {"search", "download"}
  /\ vote_new = 0
  /\ vote_timers = 1

\* The place of a genre in sorted(...) order, the order of a vote's candidates
\* (line 211).
GenreRank(g) == IF g = "jazz" THEN 1 ELSE 2

\* The genres of the tally whose ballot set is of maximum size.
Leaders(d) ==
  {d[i].g : i \in {i \in 1..Len(d) :
                     \A j \in 1..Len(d) : Cardinality(d[j].s) <= Cardinality(d[i].s)}}

\* C26: when the timer resolves a running vote whose tally holds a ballot, the
\* winner is, of the genres with the largest ballot set, the one that comes first
\* in the candidates' order, in whatever order the ballots were cast.
C26_TieGoesToFirstCandidate ==
  [][(/\ vote_in_progress /\ vote_timers' < vote_timers
      /\ \E i \in 1..Len(votes) : votes[i].s # {}
      /\ Leaders(votes) \subseteq current_vote_genres) =>
       /\ winning_genre' \in Leaders(votes)
       /\ \A g \in Leaders(votes) : GenreRank(winning_genre') <= GenreRank(g)]_vars

\* C27: the loop starts a download only for a popped track whose identifier is
\* not in the recency set at that moment; a popped track whose identifier is in
\* the set is thrown away and the loop goes back to its top with the recency set
\* as it was; and every identifier a refill appends to the playlist was absent
\* from the recency set when the refill was made.
C27_PlayedTracksAreSkipped ==
  [][/\ (pc' = "download" /\ pc # "download") =>
          /\ pc = "pop"
          /\ Head(playlist).id \notin played_ids
          /\ dropped' = {}
     /\ (pc = "pop" /\ Head(playlist).id \in played_ids) =>
          /\ pc' = "top"
          /\ dropped' = {Head(playlist).id}
          /\ playlist' = Tail(playlist)
          /\ UNCHANGED <<played_ids, query, result, error_count>>
     /\ Len(playlist') > Len(playlist) =>
          /\ pc \in {"search", "search_relaxed"}
          /\ SubSeq(playlist', 1, Len(playlist)) = playlist
          /\ \A i \in (Len(playlist) + 1)..Len(playlist') :
                playlist'[i].id \notin played_ids]_vars

\* C27 witness: the loop is back at its top having thrown away a popped track that
\* was in the recency set, and what is left of the playlist came from a refill.
C27_Witness ==
  /\ pc = "top"
  /\ dropped # {}
  /\ dropped \subseteq played_ids
  /\ playlist # <<>>

\* C28: when the playlist is under its low-water mark and the refill finds no
\* tracks, the iteration only waits the retry delay: nothing is popped, and the
\* playlist, the recency set and the error count are as they were.
C28_EmptyRefillOnlyWaits ==
  [][search_relaxed_returns({}) =>
       /\ pc' = "empty_sleep"
       /\ UNCHANGED <<playlist, played_ids, error_count>>]_vars

\* C29: the loop pops only from a playlist that is not empty, and the pop can take
\* any candidate of the playlist, not only its head: for every position there is
\* a pop that removes exactly the candidate at that position.
C29_AnyCandidateCanBePopped ==
  pc = "pop" =>
    /\ playlist # <<>>
    /\ \A i \in 1..Len(playlist) : ENABLED
         /\ loop_pop
         /\ playlist' = SubSeq(playlist, 1, i - 1) \o SubSeq(playlist, i + 1, Len(playlist))

tiers_tried == IF pc = "search" THEN 1 ELSE IF pc = "search_relaxed" THEN 2 ELSE 0

C32_SkipSignalClearWhenWaitBegins ==
  [][(pc' = "wait" /\ pc # "wait") => ~skip_event']_vars

C34_EventuallyDownloadsOrHalts ==
  (is_on /\ task = "running") ~> (pc = "download" \/ fatal_notices > 0)

\* C35: two distinct identifiers of one source never share a cache entry, letter
\* case included, so the lookup download(id) makes returns only a result that was
\* stored for that identifier: a hit is the file of the video asked for, and the
\* identifier its track carries, when it carries one, is the one asked for.
C35_IdentifiersNeverShareEntry ==
  [][\A id \in VideoIds, db_ok \in BOOLEAN :
       (download_lookup(id, db_ok) /\ cache_ret' # Null) =>
         /\ cache_ret'.file_path = track_identifier(id)
         /\ cache_ret'.track_info.identifier \in {track_identifier(id), None}]_vars

\* C36: the admission semaphore never leaks a permit.  The permits out are the
\* downloads in progress, no more and no fewer, so none is held by a call that
\* sleeps, waits, has returned, has raised or was cancelled; every way out of a
\* download (a result, an exception, a cancellation) gives one permit back; and
\* when no download is in progress a caller that waits finds a permit free.
C36_NoPermitLeak ==
  /\ [](/\ semaphore + Cardinality({c \in Callers : dl_pc[c] = "download"}) = SEM_PERMITS
        /\ ((\A c \in Callers : dl_pc[c] # "download") => permit_free))
  /\ [][\A c \in Callers :
          /\ (dl_pc[c] = "download" /\ dl_pc'[c] # "download") => semaphore' = semaphore + 1
          /\ (dl_pc[c] # "download" /\ dl_pc'[c] = "download") => semaphore' = semaphore - 1
          /\ (dl_pc[c] # "download" /\ dl_pc'[c] \notin {"download", dl_pc[c]}) =>
               semaphore' = semaphore]_vars

\* C36 witness: a call was cancelled while its download was in progress (the
\* attempt it had started has no outcome) and all permits are back.
C36_Witness ==
  /\ \E c \in Callers :
       /\ dl_pc[c] = "cancelled"
       /\ dl_calls[c] > 0
       /\ dl_last[c] = None
  /\ semaphore = SEM_PERMITS

\* C37: a vote is resolved only by its own timer, so it runs its full 300 seconds
\* before end_genre_vote: when a timer's expiry resolves the running vote, no
\* timer armed for an earlier vote, one that set_admin_genre ended, is still
\* pending.  (Every timer sleeps the same 300 seconds, so a pending earlier timer
\* is the one that expires first.)
C37_VoteResolvedByOwnTimer ==
  [][(/\ vote_in_progress
      /\ vote_timers' < vote_timers
      /\ ~vote_in_progress') =>
       stale_timers = 0]_vars

\* C38: while a vote runs the genres of the tally are among that vote's sampled
\* candidates, and the genre a vote with a ballot resolves to is one of them.
C38_TallyWithinSample ==
  /\ [](vote_in_progress => \A i \in 1..Len(votes) : votes[i].g \in current_vote_genres)
  /\ [][(/\ vote_in_progress
          /\ vote_timers' < vote_timers
          /\ \E i \in 1..Len(votes) : votes[i].s # {}) =>
           winning_genre' \in current_vote_genres]_vars

\* C39: after set_artist_mode or set_mood the mode stays the operator's until it
\* expires or the next operator command: the timer of a vote that was running
\* when the override came does not replace it with the vote's genre, and the
\* queries made for refills stay those of the operator's mode.
C39_OverrideOutlivesRunningVote ==
  [][(/\ last_mode_op \in {"set_artist_mode", "set_mood"}
      /\ vote_timers' < vote_timers) =>
       /\ UNCHANGED <<artist_mode, current_mood, winning_genre>>
       /\ next_query_terms' = next_query_terms]_vars

\* C40: whenever the post-playback wait of a track is in progress, download_with_retry
\* having returned success and the error count having been reset, the track's audio
\* was sent to the chat before the wait began.
C40_AudioSentBeforeWait ==
  pc = "wait" => audio_sent = "sent"
====
